---- MODULE Spec2Model ----
(***************************************************************************)
(* Application tracker of the CareerSuite.AI / FundingFlock.AI Apps Script *)
(* backend: the generic batch engine (_processingEngine), the application  *)
(* tracker's reconciliation handler (_trackerDataHandler) and the final    *)
(* labelling of the Gmail threads (applyFinalLabels).                      *)
(*                                                                         *)
(* The sheet is the sequence of its data rows: data row k is sheet row k+1 *)
(* (row 1 is the header).  Ranks of STATUS_HIERARCHY are scaled by 10 so   *)
(* that 4.1, 4.5, 0.5 stay integers; every comparison is preserved.        *)
(* Dates are small integers; `new Date()` inside a run is the run number.  *)
(***************************************************************************)
EXTENDS Integers, Sequences, FiniteSets, TLC

VARIABLES
    sheet,                      \* data rows of the "Applications" tab
    labels,                     \* thread -> set of Gmail labels it carries
    deleted,                    \* threads that no longer exist in the mailbox
    runs,                       \* number of engine runs started so far
    fetchedTotal,               \* number of messages fetched by the runs so far
    pc,                         \* position of the engine inside one run
    fetched,                    \* threadsToProcess.flatMap(getMessages), before the sort
    messagesToSort,             \* the same messages after the sort
    idx,                        \* number of messages the loop has consumed
    companyIndex,               \* lower-cased company -> list of cache entries
    dataToUpdate,               \* accumulated row-targeted updates
    newRowsData,                \* accumulated rows for the bulk append
    threadProcessingOutcomes,   \* thread -> "none" | "done" | "manual"
    last,                       \* what the last loop iteration did
    installation,               \* script properties, sheet tab and Gmail labels the run finds
    geminiCall,                 \* one call of _callGeminiAPI: its loop counter and its outcome
    clock,                      \* the current date, in weeks
    proposalSheet,              \* data rows of the proposal tracker tab
    staleCheck                  \* a stale check under way: its position and the values it read

vars == <<sheet, labels, deleted, runs, fetchedTotal, pc, fetched, messagesToSort, idx,
          companyIndex, dataToUpdate, newRowsData, threadProcessingOutcomes, last,
          installation, geminiCall, clock, proposalSheet, staleCheck>>

----------------------------------------------------------------------------
(* Bounds of the model *)

MaxBatch == 2
MaxRuns == 2
MaxMessages == 2

\* the threads of the mailbox and the dates a message can carry
Threads == {1, 2}
Dates == {1, 2}

----------------------------------------------------------------------------
(* Configuration constants *)

DEFAULT_STATUS == "Applied"
INTERVIEW_STATUS == "Interviewing"
OFFER_STATUS == "Offer"
REJECTED_STATUS == "Rejected"
KEEP_IN_VIEW_STATUS == "Keep In View"
WITHDRAWN_STATUS == "Withdrawn"
ACCEPTED_STATUS == "Accepted Offer"
ASSESSMENT_STATUS == "Assessment"
APPLICATION_VIEWED_STATUS == "Application Viewed"
MANUAL_REVIEW_NEEDED == "Manual Review Needed"
DEFAULT_PLATFORM == "Email/Website"

StatusVocabulary ==
    {DEFAULT_STATUS, "Screening", ASSESSMENT_STATUS, INTERVIEW_STATUS, "Interview 1",
     "Interview 2", "Interview 3+", "Final Interview", OFFER_STATUS, ACCEPTED_STATUS,
     REJECTED_STATUS, WITHDRAWN_STATUS, KEEP_IN_VIEW_STATUS, MANUAL_REVIEW_NEEDED}

\* STATUS_HIERARCHY[s] ?? 0, times 10
STATUS_HIERARCHY(s) ==
    CASE s = DEFAULT_STATUS -> 10
      [] s = "Screening" -> 20
      [] s = ASSESSMENT_STATUS -> 30
      [] s = INTERVIEW_STATUS -> 40
      [] s = "Interview 1" -> 41
      [] s = "Interview 2" -> 42
      [] s = "Interview 3+" -> 43
      [] s = "Final Interview" -> 45
      [] s = OFFER_STATUS -> 50
      [] s = ACCEPTED_STATUS -> 60
      [] s = REJECTED_STATUS -> 0
      [] s = WITHDRAWN_STATUS -> -10
      [] s = KEEP_IN_VIEW_STATUS -> 5
      [] s = MANUAL_REVIEW_NEEDED -> -20
      [] OTHER -> 0

TRACKER_GMAIL_LABEL_TO_PROCESS == "CareerSuite.AI/Applications/To Process"
TRACKER_GMAIL_LABEL_PROCESSED == "CareerSuite.AI/Applications/Processed"
TRACKER_GMAIL_LABEL_MANUAL_REVIEW == "CareerSuite.AI/Applications/Manual Review"

----------------------------------------------------------------------------
(* Strings *)

ERROR_COMPANY == "ERROR: Gemini API Error"

\* String.prototype.toLowerCase on the strings of the model
ToLowerCase(s) ==
    CASE s = "Acme" -> "acme"
      [] s = "ACME" -> "acme"
      [] s = "Acme " -> "acme "
      [] s = "Dev" -> "dev"
      [] s = "DEV" -> "dev"
      [] s = "QA" -> "qa"
      [] s = MANUAL_REVIEW_NEEDED -> "manual review needed"
      [] s = ERROR_COMPANY -> "error: gemini api error"
      [] s = "See Notes" -> "see notes"
      [] OTHER -> s

\* String.prototype.trim on the strings of the model
Trim(s) ==
    CASE s = " " -> ""
      [] s = "Acme " -> "Acme"
      [] s = "acme " -> "acme"
      [] OTHER -> s

\* a || b on strings: the empty string is falsy
OrElse(a, b) == IF a = "" THEN b ELSE a

----------------------------------------------------------------------------
(* Inputs of the model: what the mailbox and the extractor can deliver *)

CompanyNames == {"Acme", "ACME", "Acme ", MANUAL_REVIEW_NEEDED}

\* null, or the object callGemini_forApplicationDetails returns
NullResult == [isNull |-> TRUE, company |-> "", title |-> "", status |-> ""]
Extracted(c, t, s) == [isNull |-> FALSE, company |-> c, title |-> t, status |-> s]

\* what _callGeminiAPI hands back: null after a failed call, or the parsed JSON
\* object ("" stands for a field that is undefined)
ApiFailure == [isNull |-> TRUE, company_name |-> "", job_title |-> "", status |-> ""]
ApiObject(c, t, s) == [isNull |-> FALSE, company_name |-> c, job_title |-> t, status |-> s]

\* callGemini_forApplicationDetails: null only for a message without subject and
\* body (the API key is present once the engine has passed its checks); a failed
\* call or an object missing a field gives the all-sentinel object
callGemini_forApplicationDetails(emailEmpty, extractedData) ==
    IF emailEmpty THEN NullResult
    ELSE IF /\ ~extractedData.isNull
            /\ extractedData.company_name # ""
            /\ extractedData.job_title # ""
            /\ extractedData.status # ""
         THEN Extracted(extractedData.company_name, extractedData.job_title, extractedData.status)
         ELSE Extracted(MANUAL_REVIEW_NEEDED, MANUAL_REVIEW_NEEDED, MANUAL_REVIEW_NEEDED)

\* results of extractCompanyAndTitle: both found, only the company (from the
\* sender), nothing
RegexFound == [company |-> "Acme", title |-> "Dev"]
RegexSenderOnly == [company |-> "Acme", title |-> MANUAL_REVIEW_NEEDED]
RegexFailed == [company |-> MANUAL_REVIEW_NEEDED, title |-> MANUAL_REVIEW_NEEDED]

\* What the extraction of one message can deliver: g the parser's result, kw the
\* result of parseBodyForStatus on the body ("" stands for null), rx the result
\* of extractCompanyAndTitle.
ExtractionCase(g, kw, rx) == [g |-> g, kw |-> kw, rx |-> rx]

\* the Gemini call fails for a message whose subject and body the fallback
\* parsers can read
ExtractorFailedCase ==
    ExtractionCase(callGemini_forApplicationDetails(FALSE, ApiFailure), INTERVIEW_STATUS, RegexFound)

ExtractionCases ==
    {ExtractionCase(Extracted("Acme", "Dev", DEFAULT_STATUS), "", RegexFailed),
     ExtractionCase(Extracted("ACME", "DEV", INTERVIEW_STATUS), "", RegexFailed),
     ExtractionCase(Extracted("Acme", "Dev", REJECTED_STATUS), "", RegexFailed),
     ExtractionCase(Extracted("Acme", "Dev", OFFER_STATUS), "", RegexFailed),
     ExtractionCase(Extracted("Acme", MANUAL_REVIEW_NEEDED, "Update/Other"), "", RegexFailed),
     ExtractionCase(Extracted("Acme", "QA", DEFAULT_STATUS), "", RegexFailed),
     ExtractionCase(Extracted("Acme ", "Dev", INTERVIEW_STATUS), "", RegexFailed),
     ExtractorFailedCase,
     ExtractionCase(callGemini_forApplicationDetails(TRUE, ApiFailure), "", RegexSenderOnly),
     ExtractionCase(callGemini_forApplicationDetails(TRUE, ApiFailure), "", RegexFailed)}

AllCompanyStrings == CompanyNames \cup {ERROR_COMPANY}
IndexKeys == {ToLowerCase(c) : c \in AllCompanyStrings}

\* A Gmail message: getId(), getThread().getId(), getDate().  The id is fixed by
\* the thread and the date, so the same pair fetched again is the same message.
MsgId(t, d) == (t - 1) * Cardinality(Dates) + d
Message(t, d) == [id |-> MsgId(t, d), thread |-> t, date |-> d]
Messages == {Message(t, d) : t \in Threads, d \in Dates}

----------------------------------------------------------------------------
(* Rows of the "Applications" sheet (APP_TRACKER_SHEET_HEADERS).  Numeric   *)
(* columns use 0 for an empty cell, string columns use "".                  *)

BlankRow ==
    [processed |-> 0, emailDate |-> 0, platform |-> "", company |-> "", title |-> "",
     status |-> "", peak |-> "", lastUpdate |-> 0, subject |-> 0, link |-> 0,
     emailId |-> 0, notes |-> ""]

\* a row already in the table when the model starts
SeedRow(c, t, s, p) ==
    [BlankRow EXCEPT !.platform = DEFAULT_PLATFORM, !.company = c, !.title = t,
                     !.status = s, !.peak = p, !.emailDate = 1, !.lastUpdate = 1]

InitTables ==
    {<<>>,
     <<SeedRow("Acme", "Dev", DEFAULT_STATUS, DEFAULT_STATUS)>>,
     <<SeedRow("Acme", "Dev", ACCEPTED_STATUS, ACCEPTED_STATUS)>>}

----------------------------------------------------------------------------
(* Entity index *)

EmptyIndex == [k \in IndexKeys |-> <<>>]

\* the cache entry with the zero-based position of the row as its location
CacheEntry_ZeroBased(i, rowData) ==
    [row |-> i, rowData |-> rowData, emailId |-> rowData.emailId,
     company |-> rowData.company, title |-> rowData.title,
     status |-> rowData.status, peakStatus |-> rowData.peak]

CacheEntry(i, rowData) ==
    [row |-> i + 1, rowData |-> rowData, emailId |-> rowData.emailId,
     company |-> rowData.company, title |-> rowData.title,
     status |-> rowData.status, peakStatus |-> rowData.peak]

RECURSIVE BuildIndexFrom(_, _, _)
BuildIndexFrom(rows, i, index) ==
    IF i > Len(rows) THEN index
    ELSE LET companyName == rows[i].company
             companyKey == ToLowerCase(companyName)
         IN  IF Trim(companyName) # ""
             THEN BuildIndexFrom(rows, i + 1,
                      [index EXCEPT ![companyKey] = Append(@, CacheEntry(i, rows[i]))])
             ELSE BuildIndexFrom(rows, i + 1, index)

BuildIndex(rows) == BuildIndexFrom(rows, 1, EmptyIndex)

\* Array.prototype.find: the first element satisfying the test, if any
FirstIndex(seq, Test(_)) ==
    IF \E i \in 1..Len(seq) : Test(seq[i])
    THEN CHOOSE i \in 1..Len(seq) : Test(seq[i]) /\ \A j \in 1..(i - 1) : ~Test(seq[j])
    ELSE 0

----------------------------------------------------------------------------
(* Fetch and sort *)

\* Insert m after every element whose date is not later (the sort is stable)
RECURSIVE InsertByDate(_, _)
InsertByDate(sorted, m) ==
    IF sorted = <<>> THEN <<m>>
    ELSE IF Head(sorted).date <= m.date
         THEN <<Head(sorted)>> \o InsertByDate(Tail(sorted), m)
         ELSE <<m>> \o sorted

\* SortByDate without the sort: the messages stay in fetch order
SortByDate_FetchOrder(seq) == seq

RECURSIVE SortByDate(_)
SortByDate(seq) ==
    IF seq = <<>> THEN <<>>
    ELSE InsertByDate(SortByDate(SubSeq(seq, 1, Len(seq) - 1)), seq[Len(seq)])

\* threadsToProcess.flatMap(thread => thread.getMessages()): the messages of
\* every labelled thread, thread after thread, each thread's in date order
FetchOrders(lbl, del) ==
    LET todo == {t \in Threads : TRACKER_GMAIL_LABEL_TO_PROCESS \in lbl[t] /\ t \notin del}
    IN  {s \in UNION {[1..n -> Messages] : n \in 1..MaxBatch} :
            /\ {s[i].thread : i \in 1..Len(s)} = todo
            /\ \A i, j \in 1..Len(s) : i < j =>
                  /\ s[i] # s[j]
                  /\ s[i].thread = s[j].thread => s[i].date < s[j].date
                  /\ \A k \in 1..Len(s) :
                        (i < k /\ k < j /\ s[i].thread = s[j].thread)
                            => s[k].thread = s[i].thread}

----------------------------------------------------------------------------
(* What a run needs to find *)

\* a Gemini API key as the engine tests it: its prefix and its length
ApiKey(prefix, length) == [prefix |-> prefix, length |-> length]
NoKey == ApiKey("", 0)
ApiKeys == {NoKey, ApiKey("AIza", 39), ApiKey("AIza", 29), ApiKey("sk-", 39)}

TrackerLabels ==
    {TRACKER_GMAIL_LABEL_TO_PROCESS, TRACKER_GMAIL_LABEL_PROCESSED, TRACKER_GMAIL_LABEL_MANUAL_REVIEW}

Installation(key, hasSheet, userLabels) ==
    [geminiApiKey |-> key, hasDataSheet |-> hasSheet, userLabels |-> userLabels]

ValidInstallation == Installation(ApiKey("AIza", 39), TRUE, TrackerLabels)

\* the valid installation and the ones with one item missing or malformed
Installations ==
    {ValidInstallation}
       \cup {Installation(k, TRUE, TrackerLabels) : k \in ApiKeys}
       \cup {Installation(ApiKey("AIza", 39), FALSE, TrackerLabels)}
       \cup {Installation(ApiKey("AIza", 39), TRUE, TrackerLabels \ {l}) : l \in TrackerLabels}

\* the checks at the head of _processingEngine in Dashboard.js
ConfigurationOk(inst) ==
    /\ inst.geminiApiKey # NoKey
    /\ inst.geminiApiKey.prefix = "AIza"
    /\ inst.geminiApiKey.length >= 30
    /\ inst.hasDataSheet
    /\ TRACKER_GMAIL_LABEL_TO_PROCESS \in inst.userLabels
    /\ TRACKER_GMAIL_LABEL_PROCESSED \in inst.userLabels
    /\ TRACKER_GMAIL_LABEL_MANUAL_REVIEW \in inst.userLabels

\* the checks at the head of _processingEngine in Main.js
ProposalConfigurationOk(inst) ==
    /\ inst.geminiApiKey # NoKey
    /\ inst.hasDataSheet
    /\ TRACKER_GMAIL_LABEL_TO_PROCESS \in inst.userLabels
    /\ TRACKER_GMAIL_LABEL_PROCESSED \in inst.userLabels
    /\ TRACKER_GMAIL_LABEL_MANUAL_REVIEW \in inst.userLabels

\* no call of _callGeminiAPI is in progress
\* no stale check is under way
NoSweep == [pc |-> "idle", sheetValues |-> <<>>, currentDate |-> 0]

NoCall == [status |-> "idle", maxAttempts |-> 0, attempt |-> 0, responses |-> <<>>, value |-> "none"]

NoOutcomes == [t \in Threads |-> "none"]
NoLast == [kind |-> "none"]

Init ==
    /\ geminiCall = NoCall
    /\ staleCheck = NoSweep
    /\ clock = 0
    /\ proposalSheet = <<>>
    /\ installation = ValidInstallation
    /\ sheet \in InitTables
    /\ labels \in {[t \in Threads |-> IF t <= n THEN {TRACKER_GMAIL_LABEL_TO_PROCESS} ELSE {}] : n \in Threads}
    /\ deleted = {}
    /\ runs = 0
    /\ fetchedTotal = 0
    /\ pc = "idle"
    /\ fetched = <<>>
    /\ messagesToSort = <<>>
    /\ idx = 0
    /\ companyIndex = EmptyIndex
    /\ dataToUpdate = <<>>
    /\ newRowsData = <<>>
    /\ threadProcessingOutcomes = NoOutcomes
    /\ last = NoLast

\* _processingEngine up to the message loop: build the index from the sheet,
\* fetch the labelled threads, flatten and sort their messages
StartRun ==
    /\ pc = "idle"
    /\ runs < MaxRuns
    /\ ConfigurationOk(installation)
    /\ \E f \in FetchOrders(labels, deleted) :
          /\ fetchedTotal + Len(f) <= MaxMessages
          /\ fetchedTotal' = fetchedTotal + Len(f)
          /\ fetched' = f
          /\ messagesToSort' = SortByDate(f)
    /\ companyIndex' = BuildIndex(sheet)
    /\ runs' = runs + 1
    /\ idx' = 0
    /\ dataToUpdate' = <<>>
    /\ newRowsData' = <<>>
    /\ threadProcessingOutcomes' = NoOutcomes
    /\ last' = NoLast
    /\ pc' = "loop"
    /\ UNCHANGED <<installation, geminiCall, clock, proposalSheet, staleCheck, sheet, labels, deleted>>

----------------------------------------------------------------------------
(* Application tracker handler *)

\* _writeErrorToSheet, moduleName "Application Tracker": the row it appends
ErrorRow(now, message) ==
    [BlankRow EXCEPT !.processed = now, !.company = ERROR_COMPANY, !.title = "See Notes",
                     !.status = MANUAL_REVIEW_NEEDED, !.notes = "Unknown API response error",
                     !.subject = message.id, !.emailId = message.id]

\* _trackerDataHandler, first part: company, title and status of the candidate.
\* g is the parser's result, kw what parseBodyForStatus returns for the body,
\* rx what extractCompanyAndTitle returns.
Candidate(g, kw, rx) ==
    IF ~g.isNull
    THEN LET parsed == IF g.status # "" /\ g.status # "undefined"
                       THEN g.status ELSE "Update/Other"
             enhanced == IF parsed \in {"Update/Other", MANUAL_REVIEW_NEEDED} /\ kw # ""
                         THEN kw ELSE parsed
         IN  [companyName |-> OrElse(g.company, MANUAL_REVIEW_NEEDED),
              jobTitle |-> OrElse(g.title, MANUAL_REVIEW_NEEDED),
              applicationStatus |-> enhanced,
              wroteError |-> FALSE]
    ELSE [companyName |-> rx.company, jobTitle |-> rx.title,
          applicationStatus |-> kw, wroteError |-> TRUE]

\* the test of the lookup reduced to "the entry has a title": any entry of the
\* company is taken
TitleMatches_CompanyOnly(e, jobTitle) ==
    e.title # ""

\* potentialMatches.find(e => e.title && e.title.toLowerCase() === jobTitle.toLowerCase())
TitleMatches(e, jobTitle) ==
    e.title # "" /\ ToLowerCase(e.title) = ToLowerCase(jobTitle)

\* ExistingRowInfo without the manual-review guard: the lookup runs for every candidate
ExistingRowInfo_NoQuarantine(index, companyName, jobTitle) ==
    LET potentialMatches == index[ToLowerCase(companyName)]
        Test(e) == TitleMatches(e, jobTitle)
    IN  FirstIndex(potentialMatches, Test)

\* position in the company's list of the entry the handler picks, 0 when none
ExistingRowInfo(index, companyName, jobTitle) ==
    IF companyName # MANUAL_REVIEW_NEEDED /\ jobTitle # MANUAL_REVIEW_NEEDED
    THEN LET potentialMatches == index[ToLowerCase(companyName)]
             Test(e) == TitleMatches(e, jobTitle)
         IN  FirstIndex(potentialMatches, Test)
    ELSE 0

\* _proposalDataHandler: the entry it picks for a candidate, 0 when none
\* (the funder index is keyed and searched as the company index is)
ProposalExistingRowInfo(funderIndex, funderName, proposalTitle) ==
    LET requiresManualReview ==
            funderName = MANUAL_REVIEW_NEEDED \/ proposalTitle = MANUAL_REVIEW_NEEDED
    IN  IF ~requiresManualReview
        THEN LET potentialMatches == funderIndex[ToLowerCase(funderName)]
                 Test(e) == e.title # "" /\ ToLowerCase(e.title) = ToLowerCase(proposalTitle)
             IN  FirstIndex(potentialMatches, Test)
        ELSE 0

\* the status merge rule of the UPDATE path: the value of the status cell after it.
\* statInSheet is the trimmed cell (or the default), cell the cell as it stands.
MergeStatus(statInSheet, cell, finalStatusToSet) ==
    LET curRank == STATUS_HIERARCHY(statInSheet)
        newRank == STATUS_HIERARCHY(finalStatusToSet)
    IN  IF \/ newRank >= curRank
           \/ finalStatusToSet = REJECTED_STATUS
           \/ finalStatusToSet = OFFER_STATUS
        THEN finalStatusToSet
        ELSE cell

\* the UPDATE path with the message's values taken only together with its status
UpdatedRow_ProvenanceOnAccept(existing, finalStatusToSet, now, message) ==
    LET statInSheet == OrElse(Trim(existing.rowData.status), DEFAULT_STATUS)
        merged == MergeStatus(statInSheet, existing.rowData.status, finalStatusToSet)
        base == IF merged = finalStatusToSet
                THEN [existing.rowData EXCEPT
                         !.processed = now, !.lastUpdate = message.date,
                         !.subject = message.id, !.link = message.id, !.emailId = message.id]
                ELSE [existing.rowData EXCEPT !.processed = now]
        withStatus == [base EXCEPT !.status = merged]
        peakStat == OrElse(existing.peakStatus, statInSheet)
    IN  IF STATUS_HIERARCHY(withStatus.status) > STATUS_HIERARCHY(peakStat)
        THEN [withStatus EXCEPT !.peak = withStatus.status]
        ELSE withStatus

\* the UPDATE path: the row written back for the matched entry
UpdatedRow(existing, finalStatusToSet, now, message) ==
    LET base == [existing.rowData EXCEPT
                    !.processed = now, !.lastUpdate = message.date,
                    !.subject = message.id, !.link = message.id, !.emailId = message.id]
        statInSheet == OrElse(Trim(base.status), DEFAULT_STATUS)
        withStatus == [base EXCEPT !.status = MergeStatus(statInSheet, base.status,
                                                          finalStatusToSet)]
        statAfterUpd == withStatus.status
        peakStat == OrElse(existing.peakStatus, statInSheet)
    IN  IF STATUS_HIERARCHY(statAfterUpd) > STATUS_HIERARCHY(peakStat)
        THEN [withStatus EXCEPT !.peak = statAfterUpd]
        ELSE withStatus

\* the CREATE path: the new row
CreatedRow(companyName, jobTitle, finalStatusToSet, now, message) ==
    [processed |-> now, emailDate |-> message.date, platform |-> DEFAULT_PLATFORM,
     company |-> companyName, title |-> jobTitle, status |-> finalStatusToSet,
     peak |-> finalStatusToSet, lastUpdate |-> message.date, subject |-> message.id,
     link |-> message.id, emailId |-> message.id, notes |-> ""]

\* _trackerDataHandler: what it returns, with the candidate it worked on
_trackerDataHandler(g, kw, rx, message, index, now) ==
    LET c == Candidate(g, kw, rx)
        requiresManualReview ==
            c.companyName = MANUAL_REVIEW_NEEDED \/ c.jobTitle = MANUAL_REVIEW_NEEDED
        pos == ExistingRowInfo(index, c.companyName, c.jobTitle)
        list == index[ToLowerCase(c.companyName)]
        targetSheetRowForUpdate == IF pos # 0 /\ list[pos].row # -1 THEN list[pos].row ELSE -1
        finalStatusToSet == OrElse(c.applicationStatus, DEFAULT_STATUS)
        common == [msg |-> message, companyName |-> c.companyName, jobTitle |-> c.jobTitle,
                   finalStatusToSet |-> finalStatusToSet, wroteError |-> c.wroteError,
                   requiresManualReview |-> requiresManualReview]
    IN  IF targetSheetRowForUpdate # -1
        THEN LET values == UpdatedRow(list[pos], finalStatusToSet, now, message)
             IN  common @@ [kind |-> "update",
                            updateInfo |-> [row |-> targetSheetRowForUpdate, values |-> values,
                                            newStatus |-> values.status,
                                            newPeakStatus |-> values.peak,
                                            company |-> values.company]]
        ELSE common @@ [kind |-> "create",
                        newRowData |-> CreatedRow(c.companyName, c.jobTitle,
                                                  finalStatusToSet, now, message)]

----------------------------------------------------------------------------
(* The message loop *)

\* live cache update after an UPDATE: the entry of that row takes the new status and peak
CacheAfterUpdate(index, updateInfo) ==
    LET companyKey == ToLowerCase(updateInfo.company)
        Test(e) == e.row = updateInfo.row
        pos == FirstIndex(index[companyKey], Test)
    IN  IF pos = 0 THEN index
        ELSE [index EXCEPT ![companyKey][pos].status = updateInfo.newStatus,
                           ![companyKey][pos].peakStatus = updateInfo.newPeakStatus]

\* the live cache insert with the message id left out of the pending entry
CacheAfterCreate_NoEmailId(index, newRow) ==
    LET companyKey == ToLowerCase(newRow.company)
    IN  IF companyKey = "" THEN index
        ELSE [index EXCEPT ![companyKey] =
                 Append(@, [row |-> -1, emailId |-> 0, company |-> newRow.company,
                            title |-> newRow.title, status |-> newRow.status,
                            peakStatus |-> newRow.peak])]

\* live cache insert after a CREATE: a pending entry with row -1
CacheAfterCreate(index, newRow) ==
    LET companyKey == ToLowerCase(newRow.company)
    IN  IF companyKey = "" THEN index
        ELSE [index EXCEPT ![companyKey] =
                 Append(@, [row |-> -1, emailId |-> newRow.emailId, company |-> newRow.company,
                            title |-> newRow.title, status |-> newRow.status,
                            peakStatus |-> newRow.peak])]

\* one iteration of the loop whose parser and handler return normally
HandleMessage(message) ==
    \E x \in ExtractionCases :
        LET handlerResult == _trackerDataHandler(x.g, x.kw, x.rx, message, companyIndex, runs)
        IN  /\ last' = handlerResult @@ [input |-> x]
            /\ sheet' = IF handlerResult.wroteError
                        THEN Append(sheet, ErrorRow(runs, message)) ELSE sheet
            /\ IF handlerResult.kind = "update"
               THEN /\ dataToUpdate' = Append(dataToUpdate, handlerResult.updateInfo)
                    /\ companyIndex' = CacheAfterUpdate(companyIndex, handlerResult.updateInfo)
                    /\ UNCHANGED newRowsData
               ELSE /\ newRowsData' = Append(newRowsData, handlerResult.newRowData)
                    /\ companyIndex' = CacheAfterCreate(companyIndex, handlerResult.newRowData)
                    /\ UNCHANGED dataToUpdate
            /\ threadProcessingOutcomes' =
                  [threadProcessingOutcomes EXCEPT ![message.thread] =
                      IF handlerResult.requiresManualReview THEN "manual" ELSE "done"]

\* one iteration in which the parser or the handler throws: the catch block
MessageThrows(message) ==
    /\ last' = [kind |-> "error", msg |-> message]
    /\ threadProcessingOutcomes' = [threadProcessingOutcomes EXCEPT ![message.thread] = "manual"]
    /\ UNCHANGED <<sheet, companyIndex, dataToUpdate, newRowsData>>

ProcessMessage ==
    /\ pc = "loop"
    /\ idx < Len(messagesToSort)
    /\ LET message == messagesToSort[idx + 1]
       IN  HandleMessage(message) \/ MessageThrows(message)
    /\ idx' = idx + 1
    /\ UNCHANGED <<installation, geminiCall, clock, proposalSheet, staleCheck, labels, deleted, runs, fetchedTotal, pc, fetched, messagesToSort>>

\* the loop runs out of messages
LoopDone ==
    /\ pc = "loop"
    /\ idx = Len(messagesToSort)
    /\ pc' = "write"
    /\ UNCHANGED <<installation, geminiCall, clock, proposalSheet, staleCheck, sheet, labels, deleted, runs, fetchedTotal, fetched, messagesToSort, idx,
                   companyIndex, dataToUpdate, newRowsData, threadProcessingOutcomes, last>>

\* the 320 s limit is reached before a message: break
DeadlineBreak ==
    /\ pc = "loop"
    /\ idx < Len(messagesToSort)
    /\ pc' = "write"
    /\ UNCHANGED <<installation, geminiCall, clock, proposalSheet, staleCheck, sheet, labels, deleted, runs, fetchedTotal, fetched, messagesToSort, idx,
                   companyIndex, dataToUpdate, newRowsData, threadProcessingOutcomes, last>>

----------------------------------------------------------------------------
(* Writes at the end of the batch *)

\* dataToUpdate.forEach(update => getRange(update.row, ...).setValues([update.values]))
RECURSIVE ApplyUpdates(_, _)
ApplyUpdates(rows, updates) ==
    IF updates = <<>> THEN rows
    ELSE ApplyUpdates([rows EXCEPT ![Head(updates).row - 1] = Head(updates).values],
                      Tail(updates))

WriteUpdates ==
    /\ pc = "write"
    /\ sheet' = ApplyUpdates(sheet, dataToUpdate)
    /\ pc' = "append"
    /\ UNCHANGED <<installation, geminiCall, clock, proposalSheet, staleCheck, labels, deleted, runs, fetchedTotal, fetched, messagesToSort, idx,
                   companyIndex, dataToUpdate, newRowsData, threadProcessingOutcomes, last>>

\* the back-patch of the pending cache entries after the bulk append
RECURSIVE PatchLocations(_, _, _, _)
PatchLocations(index, rows, i, firstNewRow) ==
    IF i > Len(rows) THEN index
    ELSE LET companyKey == ToLowerCase(rows[i].company)
             Test(e) == e.row = -1 /\ e.emailId = rows[i].emailId
             pos == IF companyKey \in DOMAIN index
                    THEN FirstIndex(index[companyKey], Test) ELSE 0
         IN  PatchLocations(
                 IF pos = 0 THEN index
                 ELSE [index EXCEPT ![companyKey][pos].row = firstNewRow + (i - 1)],
                 rows, i + 1, firstNewRow)

AppendNewRows ==
    /\ pc = "append"
    /\ IF Len(newRowsData) > 0
       THEN LET firstNewRow == (Len(sheet) + 1) + 1
            IN  /\ sheet' = sheet \o newRowsData
                /\ companyIndex' = PatchLocations(companyIndex, newRowsData, 1, firstNewRow)
       ELSE UNCHANGED <<sheet, companyIndex>>
    /\ pc' = "labels"
    /\ UNCHANGED <<installation, geminiCall, clock, proposalSheet, staleCheck, labels, deleted, runs, fetchedTotal, fetched, messagesToSort, idx,
                   dataToUpdate, newRowsData, threadProcessingOutcomes, last>>

----------------------------------------------------------------------------
(* Final labels *)

\* FinalLabelsOf that skips a thread already carrying the target label
FinalLabelsOf_SkipLabelled(current, outcome, gone) ==
    IF outcome = "none" \/ gone THEN current
    ELSE LET targetLabelToAdd == IF outcome = "manual" THEN TRACKER_GMAIL_LABEL_MANUAL_REVIEW ELSE TRACKER_GMAIL_LABEL_PROCESSED
         IN  IF targetLabelToAdd \in current THEN current
             ELSE (current \ {TRACKER_GMAIL_LABEL_TO_PROCESS}) \cup {targetLabelToAdd}

\* applyFinalLabels on one thread: its labels afterwards
FinalLabelsOf(current, outcome, gone) ==
    IF outcome = "none" \/ gone THEN current
    ELSE LET targetLabelToAdd == IF outcome = "manual" THEN TRACKER_GMAIL_LABEL_MANUAL_REVIEW ELSE TRACKER_GMAIL_LABEL_PROCESSED
             removed == IF TRACKER_GMAIL_LABEL_TO_PROCESS \in current THEN current \ {TRACKER_GMAIL_LABEL_TO_PROCESS} ELSE current
         IN  IF targetLabelToAdd \notin current
             THEN removed \cup {targetLabelToAdd}
             ELSE removed

\* applyFinalLabels in which a thread that is gone raises out of the loop
applyFinalLabels_AbortOnMissing(lbl, outcomes, del) ==
    IF \E t \in Threads : outcomes[t] # "none" /\ t \in del
    THEN lbl
    ELSE [t \in Threads |-> FinalLabelsOf(lbl[t], outcomes[t], t \in del)]

applyFinalLabels(lbl, outcomes, del) ==
    [t \in Threads |-> FinalLabelsOf(lbl[t], outcomes[t], t \in del)]

\* the call of applyFinalLabels that ends the run
ApplyFinalLabels ==
    /\ pc = "labels"
    /\ labels' = applyFinalLabels(labels, threadProcessingOutcomes, deleted)
    /\ pc' = "done"
    /\ UNCHANGED <<installation, geminiCall, clock, proposalSheet, staleCheck, sheet, deleted, runs, fetchedTotal, fetched, messagesToSort, idx,
                   companyIndex, dataToUpdate, newRowsData, threadProcessingOutcomes, last>>

\* _processingEngine returns: its locals are gone
FinishRun ==
    /\ pc = "done"
    /\ pc' = "idle"
    /\ fetched' = <<>>
    /\ messagesToSort' = <<>>
    /\ idx' = 0
    /\ companyIndex' = EmptyIndex
    /\ dataToUpdate' = <<>>
    /\ newRowsData' = <<>>
    /\ threadProcessingOutcomes' = NoOutcomes
    /\ last' = NoLast
    /\ UNCHANGED <<installation, geminiCall, clock, proposalSheet, staleCheck, sheet, labels, deleted, runs, fetchedTotal>>

----------------------------------------------------------------------------
(* The mailbox around the engine *)

\* the Gmail filter installed by _setupModule labels the mail that arrives in a
\* thread "To Process" (the user can apply the label by hand as well)
FilterLabelsThread(t) ==
    /\ pc = "idle"
    /\ runs < MaxRuns
    /\ fetchedTotal < MaxMessages
    /\ t \notin deleted
    /\ TRACKER_GMAIL_LABEL_TO_PROCESS \in installation.userLabels
    /\ TRACKER_GMAIL_LABEL_TO_PROCESS \notin labels[t]
    /\ labels' = [labels EXCEPT ![t] = @ \cup {TRACKER_GMAIL_LABEL_TO_PROCESS}]
    /\ UNCHANGED <<installation, geminiCall, clock, proposalSheet, staleCheck, sheet, deleted, runs, fetchedTotal, pc, fetched, messagesToSort, idx, companyIndex,
                   dataToUpdate, newRowsData, threadProcessingOutcomes, last>>

\* a fetched thread is deleted by the user before the labels are applied
ThreadVanishes(t) ==
    /\ pc = "labels"
    /\ t \notin deleted
    /\ threadProcessingOutcomes[t] # "none"
    /\ deleted' = deleted \cup {t}
    /\ UNCHANGED <<installation, geminiCall, clock, proposalSheet, staleCheck, sheet, labels, runs, fetchedTotal, pc, fetched, messagesToSort, idx, companyIndex,
                   dataToUpdate, newRowsData, threadProcessingOutcomes, last>>

Next ==
    \/ StartRun
    \/ ProcessMessage
    \/ LoopDone
    \/ DeadlineBreak
    \/ WriteUpdates
    \/ AppendNewRows
    \/ ApplyFinalLabels
    \/ FinishRun
    \/ \E t \in Threads : FilterLabelsThread(t)
    \/ \E t \in Threads : ThreadVanishes(t)

Spec == Init /\ [][Next]_vars

----------------------------------------------------------------------------
(* Properties *)

Rank(s) == STATUS_HIERARCHY(s)

\* every cache entry of the index, whatever its key
IndexEntries == UNION {{companyIndex[k][i] : i \in 1..Len(companyIndex[k])} : k \in IndexKeys}

\* the step is one iteration of the message loop that ran the handler to its end
Handled == pc = "loop" /\ idx' = idx + 1 /\ last'.kind \in {"update", "create"}
HandledUpdate == pc = "loop" /\ idx' = idx + 1 /\ last'.kind = "update"

\* the step is an UPDATE of the cache entry at position i of key k
UpdatesEntry(k, i) ==
    /\ HandledUpdate
    /\ ToLowerCase(last'.updateInfo.company) = k
    /\ companyIndex[k][i].row = last'.updateInfo.row

Max(a, b) == IF a >= b THEN a ELSE b

OverrideStatuses == {REJECTED_STATUS, OFFER_STATUS}

\* C1: for every tracked entity, in the entity index and in the persisted table,
\* rank(peakStatus) >= rank(status), after every CREATE and every UPDATE.
C1_PeakAtLeastStatus ==
    /\ \A i \in 1..Len(sheet) : Rank(sheet[i].peak) >= Rank(sheet[i].status)
    /\ \A e \in IndexEntries : Rank(e.peakStatus) >= Rank(e.status)

\* C2: over the messages applied to one entity, the rank of its peakStatus never
\* decreases, after each UPDATE it is the maximum of the rank before and the rank
\* of the candidate status, and a peak written to a row is never of lower rank
\* than a peak written to that row earlier.
C2_PeakMonotonic ==
    [][ /\ \A k \in IndexKeys : \A i \in 1..Len(companyIndex[k]) :
              /\ (pc = "loop" /\ pc' = "loop")
                    => Rank(companyIndex'[k][i].peakStatus) >= Rank(companyIndex[k][i].peakStatus)
              /\ UpdatesEntry(k, i)
                    => Rank(companyIndex'[k][i].peakStatus)
                         = Max(Rank(companyIndex[k][i].peakStatus), Rank(last'.finalStatusToSet))
        /\ \A i, j \in 1..Len(dataToUpdate') :
              (i < j /\ dataToUpdate'[i].row = dataToUpdate'[j].row)
                 => Rank(dataToUpdate'[j].values.peak) >= Rank(dataToUpdate'[i].values.peak)
      ]_vars

\* a row whose two keys are resolved (the rows _writeErrorToSheet adds are no entities)
ResolvedRow(r) ==
    /\ r.company # MANUAL_REVIEW_NEEDED
    /\ r.title # MANUAL_REVIEW_NEEDED
    /\ r.company # ERROR_COMPANY

SamePair(r1, r2) ==
    /\ ToLowerCase(r1.company) = ToLowerCase(r2.company)
    /\ ToLowerCase(r1.title) = ToLowerCase(r2.title)

\* C3: the persisted table holds at most one row per resolved (company, title)
\* pair, compared case-insensitively.
C3_OneRowPerPair ==
    \A i, j \in 1..Len(sheet) :
        (i < j /\ ResolvedRow(sheet[i]) /\ ResolvedRow(sheet[j])) => ~SamePair(sheet[i], sheet[j])

\* C4: a message whose resolved keys match an entry of the entity index, pending
\* or persisted, produces an UPDATE and never a CREATE.
C4_MatchGivesUpdate ==
    [][ ( /\ Handled
          /\ last'.companyName # MANUAL_REVIEW_NEEDED
          /\ last'.jobTitle # MANUAL_REVIEW_NEEDED
          /\ \E i \in 1..Len(companyIndex[ToLowerCase(last'.companyName)]) :
                TitleMatches(companyIndex[ToLowerCase(last'.companyName)][i], last'.jobTitle) )
        => last'.kind = "update"
      ]_vars

\* C6: an override-terminal status applied to an entity whose current status has
\* a higher rank becomes the entity's status, and the peak stays what it was.
C6_OverrideKeepsPeak ==
    [][ \A k \in IndexKeys : \A i \in 1..Len(companyIndex[k]) :
          ( /\ UpdatesEntry(k, i)
            /\ last'.finalStatusToSet \in OverrideStatuses
            /\ Rank(companyIndex[k][i].status) > Rank(last'.finalStatusToSet) )
          => /\ companyIndex'[k][i].status = last'.finalStatusToSet
             /\ companyIndex'[k][i].peakStatus = companyIndex[k][i].peakStatus
             /\ last'.updateInfo.values.status = last'.finalStatusToSet
             /\ last'.updateInfo.values.peak = companyIndex[k][i].peakStatus
      ]_vars

\* C7: on every UPDATE the status becomes the candidate's status if its rank is
\* >= the rank of the entity's current status (as left by the earlier messages of
\* the batch) or it is an override-terminal status, and stays unchanged otherwise.
C7_MergeRule ==
    [][ \A k \in IndexKeys : \A i \in 1..Len(companyIndex[k]) :
          UpdatesEntry(k, i)
          => LET current == companyIndex[k][i].status
                 candidate == last'.finalStatusToSet
                 expected == IF Rank(candidate) >= Rank(current) \/ candidate \in OverrideStatuses
                             THEN candidate ELSE current
             IN  /\ companyIndex'[k][i].status = expected
                 /\ last'.updateInfo.values.status = expected
      ]_vars

\* C9: the outcome of a thread is the worst outcome of its messages: once a
\* message of the thread required manual review or raised an error, the thread
\* stays "manual" whatever its later messages do.
C9_WorstOutcome ==
    [][ \A t \in Threads :
          (pc = "loop" /\ pc' = "loop" /\ threadProcessingOutcomes[t] = "manual")
             => threadProcessingOutcomes'[t] = "manual"
      ]_vars

\* C5: a candidate whose company or title is the manual-review sentinel always
\* gives CREATE with requiresManualReview, whatever the index holds, in the
\* application handler and in the proposal handler; no existing entry changes.
C5_SentinelAlwaysCreates ==
    [][ ( /\ Handled
          /\ \/ last'.companyName = MANUAL_REVIEW_NEEDED
             \/ last'.jobTitle = MANUAL_REVIEW_NEEDED )
        => /\ last'.kind = "create"
           /\ last'.requiresManualReview
           /\ newRowsData' = Append(newRowsData, last'.newRowData)
           /\ dataToUpdate' = dataToUpdate
           /\ \A k \in IndexKeys :
                 SubSeq(companyIndex'[k], 1, Len(companyIndex[k])) = companyIndex[k]
           /\ ProposalExistingRowInfo(companyIndex, last'.companyName, last'.jobTitle) = 0
      ]_vars

\* C5 witness: a candidate with a sentinel title was handled as CREATE while the
\* index held a persisted entry with the same company and the sentinel as title
C5_Witness ==
    /\ pc = "loop"
    /\ last.kind = "create"
    /\ last.companyName = "Acme"
    /\ last.jobTitle = MANUAL_REVIEW_NEEDED
    /\ \E i \in 1..Len(companyIndex["acme"]) :
          /\ companyIndex["acme"][i].title = MANUAL_REVIEW_NEEDED
          /\ companyIndex["acme"][i].row # -1

\* C8: the messages of all fetched threads are handled in ascending date order
\* whatever the fetch order, the accumulated updates are in that order, and after
\* the writes each updated row holds the values of the latest message that
\* updated it.
C8_Chronology ==
    /\ Len(messagesToSort) = Len(fetched)
    /\ {messagesToSort[i] : i \in 1..Len(messagesToSort)} = {fetched[i] : i \in 1..Len(fetched)}
    /\ \A i, j \in 1..Len(messagesToSort) :
          i < j => messagesToSort[i].date <= messagesToSort[j].date
    /\ (pc = "loop" /\ idx > 0) => last.msg = messagesToSort[idx]
    /\ \A i, j \in 1..Len(dataToUpdate) :
          i < j => dataToUpdate[i].values.lastUpdate <= dataToUpdate[j].values.lastUpdate
    /\ pc \in {"append", "labels", "done"} =>
          \A i \in 1..Len(dataToUpdate) :
              (\A j \in (i + 1)..Len(dataToUpdate) : dataToUpdate[j].row # dataToUpdate[i].row)
                 => sheet[dataToUpdate[i].row - 1] = dataToUpdate[i].values

\* C8 witness: two messages fetched latest first updated the same row, and the
\* row holds the values of the later one
C8_Witness ==
    /\ pc = "append"
    /\ Len(fetched) = 2
    /\ fetched[1].date > fetched[2].date
    /\ Len(dataToUpdate) = 2
    /\ dataToUpdate[1].row = dataToUpdate[2].row
    /\ sheet[dataToUpdate[2].row - 1].emailId = fetched[1].id

TargetLabel(outcome) == IF outcome = "manual" THEN TRACKER_GMAIL_LABEL_MANUAL_REVIEW ELSE TRACKER_GMAIL_LABEL_PROCESSED

UnprocessedThreads == {messagesToSort[i].thread : i \in (idx + 1)..Len(messagesToSort)}

\* C11: when the deadline stops the loop early, every thread with at least one
\* unprocessed message keeps "To Process" after the label step, and the updates
\* and creates accumulated before the deadline are in the table.
C11_DeadlineKeepsToProcess ==
    pc = "done" =>
        /\ \A t \in UnprocessedThreads : TRACKER_GMAIL_LABEL_TO_PROCESS \in labels[t]
        /\ \A i \in 1..Len(dataToUpdate) :
              (\A j \in (i + 1)..Len(dataToUpdate) : dataToUpdate[j].row # dataToUpdate[i].row)
                 => sheet[dataToUpdate[i].row - 1] = dataToUpdate[i].values
        /\ \A i \in 1..Len(newRowsData) :
              sheet[Len(sheet) - Len(newRowsData) + i] = newRowsData[i]

\* C12: an exception raised while a message is parsed or reconciled is caught at
\* the message boundary: the loop goes on to the next message, what the other
\* messages accumulated is kept, and the owning thread is marked manual review
\* and stays so while the rest of the batch is handled.
C12_ErrorContained ==
    [][ /\ (pc = "loop" /\ idx' = idx + 1 /\ last'.kind = "error")
              => /\ threadProcessingOutcomes'[last'.msg.thread] = "manual"
                 /\ pc' = "loop"
                 /\ UNCHANGED <<sheet, dataToUpdate, newRowsData, companyIndex>>
        /\ (pc = "loop" /\ last.kind = "error")
              => threadProcessingOutcomes'[last.msg.thread] = "manual"
      ]_vars

----------------------------------------------------------------------------
(* Table writes that fail *)

\* the setValues call of the k-th accumulated update throws: the updates before it
\* are written, the exception is outside the try block of the message loop
WriteUpdatesThrows ==
    /\ pc = "write"
    /\ \E k \in 1..Len(dataToUpdate) :
          /\ sheet' = ApplyUpdates(sheet, SubSeq(dataToUpdate, 1, k - 1))
          /\ last' = [kind |-> "writeError", ids |-> {dataToUpdate[k].values.emailId}]
    /\ pc' = "thrown"
    /\ UNCHANGED <<installation, geminiCall, clock, proposalSheet, staleCheck, labels, deleted, runs, fetchedTotal, fetched, messagesToSort, idx,
                   companyIndex, dataToUpdate, newRowsData, threadProcessingOutcomes>>

\* the setValues call of the bulk append throws: no new row is written
AppendNewRowsThrows ==
    /\ pc = "append"
    /\ Len(newRowsData) > 0
    /\ last' = [kind |-> "writeError", ids |-> {newRowsData[i].emailId : i \in 1..Len(newRowsData)}]
    /\ pc' = "thrown"
    /\ UNCHANGED <<installation, geminiCall, clock, proposalSheet, staleCheck, sheet, labels, deleted, runs, fetchedTotal, fetched, messagesToSort, idx,
                   companyIndex, dataToUpdate, newRowsData, threadProcessingOutcomes>>

\* the exception leaves _processingEngine and the trigger handler: the run is over
EngineThrows ==
    /\ pc = "thrown"
    /\ pc' = "idle"
    /\ fetched' = <<>>
    /\ messagesToSort' = <<>>
    /\ idx' = 0
    /\ companyIndex' = EmptyIndex
    /\ dataToUpdate' = <<>>
    /\ newRowsData' = <<>>
    /\ threadProcessingOutcomes' = NoOutcomes
    /\ last' = NoLast
    /\ UNCHANGED <<installation, geminiCall, clock, proposalSheet, staleCheck, sheet, labels, deleted, runs, fetchedTotal>>

NextWriteFailure ==
    \/ Next
    \/ WriteUpdatesThrows
    \/ AppendNewRowsThrows
    \/ EngineThrows

SpecWriteFailure == Init /\ [][NextWriteFailure]_vars

\* the threads of the messages whose write failed
FailedThreads == {m.thread : m \in {x \in Messages : x.id \in last.ids}}

\* C13: a failing table write is fatal to the affected message only: when the
\* run ends, the thread of that message is labelled manual review and every
\* other thread with an outcome has received its final label.
C13_WriteFailureContained ==
    [][ (pc = "thrown" /\ pc' = "idle")
        => \A t \in Threads :
              (threadProcessingOutcomes[t] # "none" /\ t \notin deleted)
                 => /\ TRACKER_GMAIL_LABEL_TO_PROCESS \notin labels'[t]
                    /\ t \in FailedThreads => TRACKER_GMAIL_LABEL_MANUAL_REVIEW \in labels'[t]
      ]_vars

----------------------------------------------------------------------------
(* Runs on an installation with a missing item *)

\* any installation; without the sheet tab there is no table, and a thread
\* carries no label that does not exist
InitAnyInstallation ==
    /\ geminiCall = NoCall
    /\ staleCheck = NoSweep
    /\ clock = 0
    /\ proposalSheet = <<>>
    /\ installation \in Installations
    /\ sheet \in IF installation.hasDataSheet THEN InitTables ELSE {<<>>}
    /\ labels \in {[t \in Threads |-> IF t <= n THEN {TRACKER_GMAIL_LABEL_TO_PROCESS} \cap installation.userLabels ELSE {}]
                      : n \in Threads}
    /\ deleted = {}
    /\ runs = 0
    /\ fetchedTotal = 0
    /\ pc = "idle"
    /\ fetched = <<>>
    /\ messagesToSort = <<>>
    /\ idx = 0
    /\ companyIndex = EmptyIndex
    /\ dataToUpdate = <<>>
    /\ newRowsData = <<>>
    /\ threadProcessingOutcomes = NoOutcomes
    /\ last = NoLast

\* _processingEngine returns at one of its configuration checks
AbortRun ==
    /\ pc = "idle"
    /\ runs < MaxRuns
    /\ ~ConfigurationOk(installation)
    /\ runs' = runs + 1
    /\ last' = [kind |-> "aborted"]
    /\ UNCHANGED <<installation, geminiCall, clock, proposalSheet, staleCheck, sheet, labels, deleted, fetchedTotal, pc, fetched, messagesToSort, idx,
                   companyIndex, dataToUpdate, newRowsData, threadProcessingOutcomes>>

NextAnyInstallation ==
    \/ Next
    \/ AbortRun

SpecAnyInstallation == InitAnyInstallation /\ [][NextAnyInstallation]_vars

\* a required item is missing: the key absent or malformed, the tab absent, a label absent
MissingConfiguration(inst) ==
    \/ inst.geminiApiKey = NoKey
    \/ inst.geminiApiKey.prefix # "AIza"
    \/ inst.geminiApiKey.length < 30
    \/ ~inst.hasDataSheet
    \/ ~(TrackerLabels \subseteq inst.userLabels)

\* C14: with a required configuration item missing, the run of either engine
\* aborts at its configuration checks, before any message is parsed, and
\* changes neither the table nor a thread label.
C14_ConfigurationAborts ==
    [][ (pc = "idle" /\ runs' = runs + 1 /\ MissingConfiguration(installation))
        => /\ last'.kind = "aborted"
           /\ pc' = "idle"
           /\ UNCHANGED <<sheet, labels, idx, dataToUpdate, newRowsData>>
           /\ ~ProposalConfigurationOk(installation)
      ]_vars

\* the primary extractor did not deliver for the message: the call failed, or
\* it was not made
PrimaryFailed(x) == x.g.isNull \/ x = ExtractorFailedCase

\* C15: whenever the primary extractor fails for a message, the candidate that
\* is reconciled is the one the fallback parser delivers, so it keeps the
\* sentinel as company, and the thread ends manual, only if the fallback does
\* not resolve it either.
C15_FallbackAfterFailure ==
    [][ (Handled /\ PrimaryFailed(last'.input))
        => /\ last'.companyName = last'.input.rx.company
           /\ last'.jobTitle = last'.input.rx.title
           /\ last'.requiresManualReview
                 => \/ last'.input.rx.company = MANUAL_REVIEW_NEEDED
                    \/ last'.input.rx.title = MANUAL_REVIEW_NEEDED
      ]_vars

----------------------------------------------------------------------------
(* The extractor call: _callGeminiAPI *)

MaxAttemptsOption == 3
DefaultMaxAttempts == 2

\* what one UrlFetchApp.fetch can bring: 200 with the JSON the prompt asks for,
\* 200 whose text part is no JSON, 200 without candidates, 200 whose body is no
\* JSON at all, 429, another HTTP code, an exception thrown by fetch
Responses ==
    {"200 valid", "200 text not JSON", "200 no candidates", "200 body not JSON",
     "429", "HTTP error", "fetch throws"}

\* the function returns v
ReturnValue(call, v) == [call EXCEPT !.status = "returned", !.value = v]

\* the loop goes to its next iteration
NextAttempt(call) == [call EXCEPT !.attempt = @ + 1]

\* the catch block of the loop with the exception rethrown
AfterCatch_Rethrow(call) == [call EXCEPT !.status = "threw"]

\* the catch block of the loop: log, sleep, next iteration
AfterCatch(call) == NextAttempt(call)

\* one iteration of the loop with response r
AfterResponse(call, r) ==
    CASE r = "200 valid" -> ReturnValue(call, "object")
      [] r = "200 text not JSON" -> ReturnValue(call, "null")
      [] r = "200 no candidates" -> ReturnValue(call, "null")
      [] r = "200 body not JSON" -> AfterCatch(call)
      [] r = "429" -> NextAttempt(call)
      [] r = "HTTP error" -> ReturnValue(call, "null")
      [] r = "fetch throws" -> AfterCatch(call)

\* no run of the engine is in progress; one call of _callGeminiAPI is followed
InitGeminiCall ==
    /\ geminiCall = NoCall
    /\ staleCheck = NoSweep
    /\ clock = 0
    /\ proposalSheet = <<>>
    /\ installation = ValidInstallation
    /\ sheet = <<>>
    /\ labels = [t \in Threads |-> {}]
    /\ deleted = {}
    /\ runs = 0
    /\ fetchedTotal = 0
    /\ pc = "idle"
    /\ fetched = <<>>
    /\ messagesToSort = <<>>
    /\ idx = 0
    /\ companyIndex = EmptyIndex
    /\ dataToUpdate = <<>>
    /\ newRowsData = <<>>
    /\ threadProcessingOutcomes = NoOutcomes
    /\ last = NoLast

EngineVars ==
    <<sheet, labels, deleted, runs, fetchedTotal, pc, fetched, messagesToSort, idx,
      companyIndex, dataToUpdate, newRowsData, threadProcessingOutcomes, last, installation,
      clock, proposalSheet, staleCheck>>

\* the call starts: options.maxAttempts, or its default
CallGeminiAPI ==
    /\ geminiCall.status = "idle"
    /\ \E n \in {DefaultMaxAttempts} \cup 1..MaxAttemptsOption :
          geminiCall' = [status |-> "running", maxAttempts |-> n, attempt |-> 1,
                         responses |-> <<>>, value |-> "none"]
    /\ UNCHANGED EngineVars

\* one iteration of the for loop
GeminiAttempt ==
    /\ geminiCall.status = "running"
    /\ geminiCall.attempt <= geminiCall.maxAttempts
    /\ \E r \in Responses :
          geminiCall' = AfterResponse([geminiCall EXCEPT !.responses = Append(@, r)], r)
    /\ UNCHANGED EngineVars

\* the loop is over: "Failed after maxAttempts attempts", return null
GeminiExhausted ==
    /\ geminiCall.status = "running"
    /\ geminiCall.attempt > geminiCall.maxAttempts
    /\ geminiCall' = ReturnValue(geminiCall, "null")
    /\ UNCHANGED EngineVars

NextGeminiCall ==
    \/ CallGeminiAPI
    \/ GeminiAttempt
    \/ GeminiExhausted

SpecGeminiCall == InitGeminiCall /\ [][NextGeminiCall]_vars /\ WF_vars(NextGeminiCall)

\* C16: whatever the responses, the extractor call makes at most maxAttempts
\* fetches, never lets an exception escape, and ends by returning a parsed
\* object or null.
C16_CallTerminates ==
    /\ [](/\ Len(geminiCall.responses) <= geminiCall.maxAttempts
          /\ geminiCall.status # "threw"
          /\ geminiCall.status = "returned" => geminiCall.value \in {"object", "null"})
    /\ (geminiCall.status = "running") ~> (geminiCall.status = "returned")

\* C16 witness: a call with the default two attempts that was rate limited, then
\* met an exception of fetch, and returned null
C16_Witness ==
    /\ geminiCall.status = "returned"
    /\ geminiCall.value = "null"
    /\ geminiCall.maxAttempts = DefaultMaxAttempts
    /\ geminiCall.responses = <<"429", "fetch throws">>

----------------------------------------------------------------------------
(* The stale sweeps: markStaleApplicationsAsRejected and markStaleProposals *)

WEEKS_THRESHOLD == 8
MaxSweepRows == 2
MaxClock == 11

FINAL_STATUSES_FOR_STALE_CHECK ==
    {REJECTED_STATUS, OFFER_STATUS, WITHDRAWN_STATUS, ACCEPTED_STATUS, MANUAL_REVIEW_NEEDED}

\* the status markStaleProposals writes (its definition is not in the sources)
STATUS_DECLINED == "Declined"

\* new Date(cell): an empty cell gives an invalid date
InvalidDate == [valid |-> FALSE, time |-> 0]
NewDate(cell) == IF cell = 0 THEN InvalidDate ELSE [valid |-> TRUE, time |-> cell]

\* a < b on dates: false when one of them is invalid
DateBefore(a, b) == a.valid /\ b.valid /\ a.time < b.time

\* staleThresholdDate.setDate(currentDate.getDate() - WEEKS_THRESHOLD * 7)
StaleThresholdDate(currentDate) == [valid |-> TRUE, time |-> currentDate - WEEKS_THRESHOLD]

\* truthiness of a status cell
Truthy(cell) == cell # ""

\* a string with the note of the sweep added
AUTO_NOTE == " (Auto-updated to Declined)"

markStaleApplicationsAsRejected(sheetValues, currentDate) ==
    [i \in 1..Len(sheetValues) |->
        LET currentStatus == sheetValues[i].status
            lastUpdateDate == NewDate(sheetValues[i].lastUpdate)
        IN  IF /\ currentStatus \notin FINAL_STATUSES_FOR_STALE_CHECK
               /\ DateBefore(lastUpdateDate, StaleThresholdDate(currentDate))
            THEN [sheetValues[i] EXCEPT !.status = REJECTED_STATUS, !.lastUpdate = currentDate]
            ELSE sheetValues[i]]

\* markStaleProposals that leaves the last-update cell as it is
markStaleProposals_KeepDate(sheetValues, currentDate) ==
    [i \in 1..Len(sheetValues) |->
        LET currentStatus == sheetValues[i].status
            lastUpdateDate == NewDate(sheetValues[i].lastUpdate)
        IN  IF /\ Truthy(currentStatus)
               /\ currentStatus \notin FINAL_STATUSES_FOR_STALE_CHECK
               /\ DateBefore(lastUpdateDate, StaleThresholdDate(currentDate))
            THEN [sheetValues[i] EXCEPT !.status = STATUS_DECLINED,
                                        !.notes = Append(@, AUTO_NOTE)]
            ELSE sheetValues[i]]

markStaleProposals(sheetValues, currentDate) ==
    [i \in 1..Len(sheetValues) |->
        LET currentStatus == sheetValues[i].status
            lastUpdateDate == NewDate(sheetValues[i].lastUpdate)
        IN  IF /\ Truthy(currentStatus)
               /\ currentStatus \notin FINAL_STATUSES_FOR_STALE_CHECK
               /\ DateBefore(lastUpdateDate, StaleThresholdDate(currentDate))
            THEN [sheetValues[i] EXCEPT !.status = STATUS_DECLINED, !.lastUpdate = currentDate,
                                        !.notes = Append(@, AUTO_NOTE)]
            ELSE sheetValues[i]]

\* rows the sweeps can find: an open status, a final one, an empty status cell;
\* a last update at week 1 or 2, or an empty date cell.  The two trackers start
\* with tables of the same statuses and dates.
SweepStatuses == {DEFAULT_STATUS, OFFER_STATUS, ""}
SweepDates == {0, 1, 2}

ApplicationRows ==
    {[SeedRow("Acme", "Dev", s, s) EXCEPT !.lastUpdate = d] : s \in SweepStatuses, d \in SweepDates}

\* the proposal with the status and dates of application row r
ProposalRowOf(r) ==
    [funder |-> "Fund", title |-> "Grant", status |-> r.status, peak |-> r.peak,
     lastUpdate |-> r.lastUpdate, notes |-> <<>>]

ProposalRows == {ProposalRowOf(r) : r \in ApplicationRows}

TablesOf(rows) == UNION {[1..n -> rows] : n \in 0..MaxSweepRows}

InitStaleSweep ==
    /\ sheet \in TablesOf(ApplicationRows)
    /\ proposalSheet = [i \in 1..Len(sheet) |-> ProposalRowOf(sheet[i])]
    /\ clock = WEEKS_THRESHOLD + 1
    /\ geminiCall = NoCall
    /\ staleCheck = NoSweep
    /\ installation = ValidInstallation
    /\ labels = [t \in Threads |-> {}]
    /\ deleted = {}
    /\ runs = 0
    /\ fetchedTotal = 0
    /\ pc = "idle"
    /\ fetched = <<>>
    /\ messagesToSort = <<>>
    /\ idx = 0
    /\ companyIndex = EmptyIndex
    /\ dataToUpdate = <<>>
    /\ newRowsData = <<>>
    /\ threadProcessingOutcomes = NoOutcomes
    /\ last = NoLast

SweepUnchanged ==
    UNCHANGED <<labels, deleted, runs, fetchedTotal, pc, fetched, messagesToSort, idx,
                companyIndex, dataToUpdate, newRowsData, threadProcessingOutcomes,
                installation, geminiCall, staleCheck>>

\* a week passes
Tick ==
    /\ clock < MaxClock
    /\ clock' = clock + 1
    /\ UNCHANGED <<sheet, proposalSheet, last>>
    /\ SweepUnchanged

\* the daily trigger of the application tracker
MarkStaleApplicationsAsRejected ==
    /\ sheet' = markStaleApplicationsAsRejected(sheet, clock)
    /\ last' = [kind |-> "staleApplications", before |-> sheet, currentDate |-> clock]
    /\ UNCHANGED <<proposalSheet, clock>>
    /\ SweepUnchanged

\* the daily trigger of the proposal tracker
MarkStaleProposals ==
    /\ proposalSheet' = markStaleProposals(proposalSheet, clock)
    /\ last' = [kind |-> "staleProposals", before |-> proposalSheet, currentDate |-> clock]
    /\ UNCHANGED <<sheet, clock>>
    /\ SweepUnchanged

NextStaleSweep ==
    \/ Tick
    \/ MarkStaleApplicationsAsRejected
    \/ MarkStaleProposals

SpecStaleSweep == InitStaleSweep /\ [][NextStaleSweep]_vars

\* the entity's status is outside the terminal set and its last update is more
\* than the threshold before now
IsStale(row, now) ==
    /\ row.status \notin FINAL_STATUSES_FOR_STALE_CHECK
    /\ row.lastUpdate # 0
    /\ now - row.lastUpdate > WEEKS_THRESHOLD

\* what a sweep at `now` that wrote `after` over `before` did to row i
SweptExactly(before, after, now, staleStatus) ==
    /\ Len(after) = Len(before)
    /\ \A i \in 1..Len(before) :
          IF IsStale(before[i], now)
          THEN after[i].status = staleStatus /\ after[i].lastUpdate = now
          ELSE after[i].status = before[i].status /\ after[i].lastUpdate = before[i].lastUpdate

C17_Applications ==
    last.kind = "staleApplications" =>
        SweptExactly(last.before, sheet, last.currentDate, REJECTED_STATUS)

C17_Proposals ==
    last.kind = "staleProposals" =>
        SweptExactly(last.before, proposalSheet, last.currentDate, STATUS_DECLINED)

\* C17: a stale sweep changes exactly the entities whose status is outside the
\* terminal set and whose last update is older than the threshold; those get the
\* stale status and the current date, every other entity keeps status and date.
C17_SweepExactlyStale == C17_Applications /\ C17_Proposals

\* C18: a candidate with company and title resolved, whose company is in the
\* index while no entry of that company has its title (compared without case),
\* always gives CREATE, in the application handler and in the proposal handler;
\* no update is recorded and no entry of the company changes.
C18_NoCompanyOnlyMatch ==
    [][ ( /\ Handled
          /\ last'.companyName # MANUAL_REVIEW_NEEDED
          /\ last'.jobTitle # MANUAL_REVIEW_NEEDED
          /\ Len(companyIndex[ToLowerCase(last'.companyName)]) > 0
          /\ \A i \in 1..Len(companyIndex[ToLowerCase(last'.companyName)]) :
                ToLowerCase(companyIndex[ToLowerCase(last'.companyName)][i].title)
                    # ToLowerCase(last'.jobTitle) )
        => /\ last'.kind = "create"
           /\ newRowsData' = Append(newRowsData, last'.newRowData)
           /\ last'.newRowData.company = last'.companyName
           /\ last'.newRowData.title = last'.jobTitle
           /\ dataToUpdate' = dataToUpdate
           /\ sheet' = sheet
           /\ \A k \in IndexKeys :
                 SubSeq(companyIndex'[k], 1, Len(companyIndex[k])) = companyIndex[k]
           /\ ProposalExistingRowInfo(companyIndex, last'.companyName, last'.jobTitle) = 0
      ]_vars

\* C18 witness: the candidate Acme / QA was handled as CREATE while the index
\* held a persisted entry Acme / Dev and no entry Acme / QA
C18_Witness ==
    /\ pc = "loop"
    /\ last.kind = "create"
    /\ last.companyName = "Acme"
    /\ last.jobTitle = "QA"
    /\ \E i \in 1..Len(companyIndex["acme"]) :
          /\ ToLowerCase(companyIndex["acme"][i].title) = "dev"
          /\ companyIndex["acme"][i].row # -1
    /\ Cardinality({i \in 1..Len(companyIndex["acme"]) :
                       ToLowerCase(companyIndex["acme"][i].title) = "qa"}) = 1

\* the two company names are the same up to letter case and surrounding blanks
SameCompany(a, b) == ToLowerCase(Trim(a)) = ToLowerCase(Trim(b))

\* C19 for names that differ in letter case only
C19_CaseOnly ==
    [][ ( /\ Handled
          /\ last'.companyName # MANUAL_REVIEW_NEEDED
          /\ last'.jobTitle # MANUAL_REVIEW_NEEDED
          /\ \E k \in IndexKeys : \E i \in 1..Len(companyIndex[k]) :
                /\ companyIndex[k][i].row # -1
                /\ ToLowerCase(companyIndex[k][i].company) = ToLowerCase(last'.companyName)
                /\ TitleMatches(companyIndex[k][i], last'.jobTitle) )
        => last'.kind = "update"
      ]_vars

\* C19: a candidate whose company differs from the company of a persisted entry
\* only in letter case or in leading or trailing blanks, and whose title is that
\* entry's title, matches the entry and gives UPDATE.
C19_KeyNormalised ==
    [][ ( /\ Handled
          /\ last'.companyName # MANUAL_REVIEW_NEEDED
          /\ last'.jobTitle # MANUAL_REVIEW_NEEDED
          /\ \E k \in IndexKeys : \E i \in 1..Len(companyIndex[k]) :
                /\ companyIndex[k][i].row # -1
                /\ SameCompany(companyIndex[k][i].company, last'.companyName)
                /\ TitleMatches(companyIndex[k][i], last'.jobTitle) )
        => last'.kind = "update"
      ]_vars

----------------------------------------------------------------------------
(* The handlers of the proposal tracker and of the leads tracker *)

\* what _callGeminiAPI hands back to callGemini_forProposalStatus after a failed call
ProposalApiFailure ==
    [isNull |-> TRUE, funderName |-> "", proposalTitle |-> "", submissionStatus |-> ""]

\* callGemini_forProposalStatus: null for a message without subject and body,
\* the all-sentinel object after a failed call or for an object missing a field
callGemini_forProposalStatus(emailEmpty, extractedData) ==
    IF emailEmpty
    THEN [isNull |-> TRUE, funderName |-> "", proposalTitle |-> "", submissionStatus |-> ""]
    ELSE IF /\ ~extractedData.isNull
            /\ extractedData.funderName # ""
            /\ extractedData.proposalTitle # ""
            /\ extractedData.submissionStatus # ""
         THEN [extractedData EXCEPT !.isNull = FALSE]
         ELSE [isNull |-> FALSE, funderName |-> MANUAL_REVIEW_NEEDED,
               proposalTitle |-> MANUAL_REVIEW_NEEDED,
               submissionStatus |-> MANUAL_REVIEW_NEEDED]

\* _proposalDataHandler: what it returns ("none": neither updateInfo nor newRowData)
_proposalDataHandler(geminiResult, funderIndex) ==
    IF geminiResult.isNull
    THEN [kind |-> "none", requiresManualReview |-> TRUE]
    ELSE LET requiresManualReview ==
                 \/ geminiResult.funderName = MANUAL_REVIEW_NEEDED
                 \/ geminiResult.proposalTitle = MANUAL_REVIEW_NEEDED
             pos == ProposalExistingRowInfo(funderIndex, geminiResult.funderName,
                                            geminiResult.proposalTitle)
         IN  [kind |-> IF pos # 0 THEN "update" ELSE "create",
              requiresManualReview |-> requiresManualReview]

\* callGemini_forJobLeads: success exactly when _callGeminiAPI returned a value
callGemini_forJobLeads(parsedIsNull) ==
    [success |-> ~parsedIsNull, isArray |-> ~parsedIsNull]

\* _leadsDataHandler: a failed call writes an error row and asks for manual review
_leadsDataHandler(geminiResult) ==
    IF geminiResult.success /\ geminiResult.isArray
    THEN [wroteError |-> FALSE, requiresManualReview |-> FALSE]
    ELSE [wroteError |-> TRUE, requiresManualReview |-> TRUE]

\* C20 for the application tracker: the failed message leaves a row flagged for
\* manual review and its thread is flagged manual
C20_Applications ==
    [][ (Handled /\ PrimaryFailed(last'.input))
        => /\ last'.kind = "create"
           /\ last'.requiresManualReview
           /\ newRowsData' = Append(newRowsData, last'.newRowData)
           /\ MANUAL_REVIEW_NEEDED \in {last'.newRowData.company, last'.newRowData.title}
           /\ threadProcessingOutcomes'[last'.msg.thread] = "manual"
      ]_vars

\* C20: a handled message whose primary extraction failed without recovery
\* leaves a row flagged for manual review and a thread flagged manual, in the
\* application tracker, in the proposal tracker and in the leads tracker.
C20_NoSilentDrop ==
    [][ (Handled /\ PrimaryFailed(last'.input))
        => /\ last'.kind = "create"
           /\ last'.requiresManualReview
           /\ newRowsData' = Append(newRowsData, last'.newRowData)
           /\ threadProcessingOutcomes'[last'.msg.thread] = "manual"
           /\ LET p == _proposalDataHandler(
                          callGemini_forProposalStatus(last'.input.g.isNull, ProposalApiFailure),
                          companyIndex)
              IN  p.kind # "none" /\ p.requiresManualReview
           /\ LET l == _leadsDataHandler(callGemini_forJobLeads(TRUE))
              IN  l.wroteError /\ l.requiresManualReview
      ]_vars

----------------------------------------------------------------------------
(* Pending entries and their back-patch *)

\* positions (key, place in the key's list) of the entries of the index
EntryPositions == UNION {{<<k, i>> : i \in 1..Len(companyIndex[k])} : k \in IndexKeys}

EntryAt(pos) == companyIndex[pos[1]][pos[2]]

\* C21: before the bulk append every index entry inserted in the run holds the
\* sentinel -1; after it each of them holds the row its data was written to
\* (first appended row + position among the new rows), no entry holds -1, and
\* no two entries hold the same row.
C21_BackPatch ==
    /\ pc \in {"loop", "write", "append"} =>
          /\ Cardinality({pos \in EntryPositions : EntryAt(pos).row = -1}) = Len(newRowsData)
          /\ \A n \in 1..Len(newRowsData) :
                \E pos \in EntryPositions :
                    /\ EntryAt(pos).row = -1
                    /\ EntryAt(pos).emailId = newRowsData[n].emailId
                    /\ pos[1] = ToLowerCase(newRowsData[n].company)
    /\ pc \in {"labels", "done"} =>
          /\ \A pos \in EntryPositions : EntryAt(pos).row # -1
          /\ \A p1, p2 \in EntryPositions : EntryAt(p1).row = EntryAt(p2).row => p1 = p2
          /\ \A n \in 1..Len(newRowsData) :
                \E pos \in EntryPositions :
                    /\ EntryAt(pos).emailId = newRowsData[n].emailId
                    /\ pos[1] = ToLowerCase(newRowsData[n].company)
                    /\ EntryAt(pos).row = (Len(sheet) - Len(newRowsData)) + 1 + n
                    /\ sheet[EntryAt(pos).row - 1] = newRowsData[n]

\* C21 witness: two rows were appended in one run and both entries are patched
C21_Witness ==
    /\ pc = "labels"
    /\ Len(newRowsData) = 2
    /\ Len(sheet) > 2
    /\ \A n \in 1..2 : \E pos \in EntryPositions :
          /\ EntryAt(pos).emailId = newRowsData[n].emailId
          /\ EntryAt(pos).row = (Len(sheet) - 2) + 1 + n

\* C22: the status and the peak status a CREATE or an UPDATE stores are keys of
\* the rank table.
C22_StatusInVocabulary ==
    [][ Handled =>
          LET row == IF last'.kind = "update" THEN last'.updateInfo.values ELSE last'.newRowData
          IN  row.status \in StatusVocabulary /\ row.peak \in StatusVocabulary
      ]_vars

----------------------------------------------------------------------------
(* The UPDATE path of the proposal handler, with the statuses of the
   application tracker standing for the ones of the proposal tracker *)

\* if (newRank >= currentRank) status = submissionStatus
ProposalMergeStatus(currentStatus, cell, submissionStatus) ==
    IF STATUS_HIERARCHY(submissionStatus) >= STATUS_HIERARCHY(currentStatus)
    THEN submissionStatus
    ELSE cell

\* the row _proposalDataHandler writes back for the matched entry
ProposalUpdatedRow(existingRowInfo, submissionStatus, message) ==
    LET base == [existingRowInfo.rowData EXCEPT
                    !.lastUpdate = message.date, !.subject = message.id,
                    !.link = message.id, !.emailId = message.id]
        currentStatus == OrElse(Trim(base.status), DEFAULT_STATUS)
        withStatus == [base EXCEPT !.status = ProposalMergeStatus(currentStatus, base.status,
                                                                  submissionStatus)]
        currentPeak == OrElse(existingRowInfo.peakStatus, currentStatus)
    IN  IF STATUS_HIERARCHY(withStatus.status) > STATUS_HIERARCHY(currentPeak)
        THEN [withStatus EXCEPT !.peak = withStatus.status]
        ELSE withStatus

\* C23: for the same index and the same candidate the proposal handler takes
\* the decision of the application handler (CREATE or UPDATE) and, on UPDATE,
\* computes the same status and peak status.
C23_SamePolicy ==
    [][ Handled =>
          LET candidate == [isNull |-> FALSE, funderName |-> last'.companyName,
                            proposalTitle |-> last'.jobTitle,
                            submissionStatus |-> last'.finalStatusToSet]
              pos == ProposalExistingRowInfo(companyIndex, last'.companyName, last'.jobTitle)
          IN  /\ _proposalDataHandler(candidate, companyIndex).kind = last'.kind
              /\ last'.kind = "update" =>
                    LET row == ProposalUpdatedRow(
                                   companyIndex[ToLowerCase(last'.companyName)][pos],
                                   last'.finalStatusToSet, last'.msg)
                    IN  /\ row.status = last'.updateInfo.values.status
                        /\ row.peak = last'.updateInfo.values.peak
      ]_vars

----------------------------------------------------------------------------
(* Rate limits and malformed content in the extractor call *)

\* the step is one fetch of the running call, with response r
Fetched(r) ==
    /\ geminiCall.status = "running"
    /\ geminiCall'.responses = Append(geminiCall.responses, r)

\* a rate limit on a non-final attempt is followed by another attempt
RateLimitRetried ==
    (Fetched("429") /\ geminiCall.attempt < geminiCall.maxAttempts)
       => /\ geminiCall'.status = "running"
          /\ geminiCall'.attempt = geminiCall.attempt + 1
          /\ geminiCall'.attempt <= geminiCall'.maxAttempts

\* a 200 response with content r ends the call with null
EndsAtOnce(r) ==
    Fetched(r) => geminiCall'.status = "returned" /\ geminiCall'.value = "null"

\* C24 for the content inside a well-formed envelope
C24_InnerContent ==
    [][ /\ RateLimitRetried
        /\ EndsAtOnce("200 text not JSON")
        /\ EndsAtOnce("200 no candidates")
      ]_vars

\* C24: a 429 on a non-final attempt is always followed by another attempt; a
\* 200 response whose content is malformed or incomplete ends the call at once
\* with a failure and no further attempt.
C24_RetryOnlyRateLimit ==
    [][ /\ RateLimitRetried
        /\ EndsAtOnce("200 text not JSON")
        /\ EndsAtOnce("200 no candidates")
        /\ EndsAtOnce("200 body not JSON")
      ]_vars

\* C25: when a thread with an outcome is gone at the label step, the step still
\* completes, leaves that thread alone, and every other thread with an outcome
\* receives the label of its outcome and loses "To Process".
C25_VanishedThreadSkipped ==
    /\ [](pc = "labels" => ENABLED ApplyFinalLabels)
    /\ [][ ( /\ pc = "labels" /\ pc' = "done"
             /\ \E g \in deleted : threadProcessingOutcomes[g] # "none" )
           => \A t \in Threads :
                 IF t \in deleted
                 THEN labels'[t] = labels[t]
                 ELSE threadProcessingOutcomes[t] # "none"
                         => /\ TargetLabel(threadProcessingOutcomes[t]) \in labels'[t]
                            /\ TRACKER_GMAIL_LABEL_TO_PROCESS \notin labels'[t]
         ]_vars

\* C25 witness: of two threads handled in one run, one was deleted before the
\* label step and still carries "To Process", the other carries its final label
C25_Witness ==
    /\ pc = "done"
    /\ \E g \in deleted :
          /\ threadProcessingOutcomes[g] # "none"
          /\ TRACKER_GMAIL_LABEL_TO_PROCESS \in labels[g]
          /\ TargetLabel(threadProcessingOutcomes[g]) \notin labels[g]
    /\ \E t \in Threads \ deleted :
          /\ threadProcessingOutcomes[t] # "none"
          /\ TargetLabel(threadProcessingOutcomes[t]) \in labels[t]
          /\ TRACKER_GMAIL_LABEL_TO_PROCESS \notin labels[t]

\* the row holds the message's date, subject, permalink and id
ProvenanceOf(row, message) ==
    /\ row.lastUpdate = message.date
    /\ row.subject = message.id
    /\ row.link = message.id
    /\ row.emailId = message.id

\* C26: every UPDATE sets the last-update date, the subject, the permalink and
\* the message id of the row to those of the message being handled, whether or
\* not the merge rule takes the candidate's status; so does the UPDATE path of
\* the proposal handler.
C26_ProvenanceRefreshed ==
    [][ HandledUpdate =>
          LET key == ToLowerCase(last'.companyName)
              pos == ProposalExistingRowInfo(companyIndex, last'.companyName, last'.jobTitle)
          IN  /\ ProvenanceOf(last'.updateInfo.values, last'.msg)
              /\ ProvenanceOf(ProposalUpdatedRow(companyIndex[key][pos],
                                                 last'.finalStatusToSet, last'.msg),
                              last'.msg)
      ]_vars

\* C26 witness: an UPDATE whose status was refused by the merge rule wrote the
\* values of its message over those of an earlier message
C26_Witness ==
    /\ pc = "loop"
    /\ last.kind = "update"
    /\ last.updateInfo.values.status # last.finalStatusToSet
    /\ ProvenanceOf(last.updateInfo.values, last.msg)
    /\ \E i \in 1..Len(sheet) :
          /\ i + 1 = last.updateInfo.row
          /\ sheet[i].emailId # last.msg.id

\* the two rows agree in every column an UPDATE does not assign
SameOutsideUpdate(r1, r2) ==
    /\ r1.company = r2.company
    /\ r1.title = r2.title
    /\ r1.emailDate = r2.emailDate
    /\ r1.platform = r2.platform
    /\ r1.notes = r2.notes

\* C27: the row an UPDATE writes back has the company, the title and every
\* column other than processed timestamp, last update, subject, link, message
\* id, status and peak status of the row read at index build, its location is
\* the position that row was read from, and the write changes the table at
\* the locations of the updates only and in those columns only; so does the
\* UPDATE path of the proposal handler.
C27_UpdateFrame ==
    /\ [][ HandledUpdate =>
             LET key == ToLowerCase(last'.companyName)
                 pos == ExistingRowInfo(companyIndex, last'.companyName, last'.jobTitle)
                 e == companyIndex[key][pos]
             IN  /\ last'.updateInfo.row = e.row
                 /\ \E i \in 1..Len(sheet) : i + 1 = e.row /\ sheet[i] = e.rowData
                 /\ SameOutsideUpdate(last'.updateInfo.values, e.rowData)
                 /\ SameOutsideUpdate(ProposalUpdatedRow(e, last'.finalStatusToSet, last'.msg),
                                      e.rowData)
         ]_vars
    /\ [][ (pc = "write" /\ pc' = "append") =>
             /\ Len(sheet') = Len(sheet)
             /\ \A i \in 1..Len(sheet) :
                   /\ SameOutsideUpdate(sheet'[i], sheet[i])
                   /\ sheet'[i] # sheet[i] =>
                         \E n \in 1..Len(dataToUpdate) :
                            dataToUpdate[n].row = i + 1 /\ dataToUpdate[n].values = sheet'[i]
         ]_vars

\* C27 witness: the candidate ACME / DEV updated the row Acme / Dev; after the
\* write the row is at its place with its own spelling of company and title
\* and the values of the message
C27_Witness ==
    /\ pc = "append"
    /\ last.kind = "update"
    /\ last.companyName = "ACME"
    /\ last.jobTitle = "DEV"
    /\ \E i \in 1..Len(sheet) :
          /\ i + 1 = last.updateInfo.row
          /\ sheet[i].company = "Acme"
          /\ sheet[i].title = "Dev"
          /\ sheet[i].emailId = last.msg.id
          /\ sheet[i].status = INTERVIEW_STATUS

\* row i of the table is what an earlier run made of the message now handled:
\* it carries the message's id and the candidate's company, title and status
Reprocessed(i) ==
    /\ sheet[i].emailId = last'.msg.id
    /\ sheet[i].company = last'.companyName
    /\ sheet[i].title = last'.jobTitle
    /\ sheet[i].status = last'.finalStatusToSet

\* the handled message leaves row i as it is, but for the processed timestamp
LeavesRow(i) ==
    /\ last'.kind = "update"
    /\ last'.updateInfo.row = i + 1
    /\ [last'.updateInfo.values EXCEPT !.processed = sheet[i].processed] = sheet[i]

\* C28 for candidates with company and title resolved
C28_Resolved ==
    [][ ( /\ Handled
          /\ last'.companyName # MANUAL_REVIEW_NEEDED
          /\ last'.jobTitle # MANUAL_REVIEW_NEEDED )
        => \A i \in 1..Len(sheet) : Reprocessed(i) => LeavesRow(i)
      ]_vars

\* C28: a message whose entity an earlier run persisted, handled again in a
\* later run with the same extraction, adds no row and leaves the entity's
\* keys, status, peak status and provenance as they are.
C28_ReprocessIdempotent ==
    [][ Handled => \A i \in 1..Len(sheet) : Reprocessed(i) => LeavesRow(i) ]_vars

\* C29: a second sweep at the date of the first changes no entity: every row
\* the first sweep changed has the current date as last update (and, in the
\* application tracker, a final status); a sweep changes neither the peak
\* status nor the keys of a row.
C29_SweepIdempotent ==
    /\ last.kind = "staleApplications" =>
          /\ markStaleApplicationsAsRejected(sheet, last.currentDate) = sheet
          /\ Len(sheet) = Len(last.before)
          /\ \A i \in 1..Len(sheet) :
                /\ sheet[i].peak = last.before[i].peak
                /\ sheet[i].company = last.before[i].company
                /\ sheet[i].title = last.before[i].title
                /\ sheet[i] # last.before[i] =>
                      /\ sheet[i].status \in FINAL_STATUSES_FOR_STALE_CHECK
                      /\ sheet[i].lastUpdate = last.currentDate
    /\ last.kind = "staleProposals" =>
          /\ markStaleProposals(proposalSheet, last.currentDate) = proposalSheet
          /\ Len(proposalSheet) = Len(last.before)
          /\ \A i \in 1..Len(proposalSheet) :
                /\ proposalSheet[i].peak = last.before[i].peak
                /\ proposalSheet[i].funder = last.before[i].funder
                /\ proposalSheet[i].title = last.before[i].title
                /\ proposalSheet[i] # last.before[i] =>
                      proposalSheet[i].lastUpdate = last.currentDate

\* C29 witness: a sweep of the proposal tracker found nothing to change in a
\* table that holds a row demoted by an earlier sweep at the same date
C29_Witness ==
    /\ last.kind = "staleProposals"
    /\ last.before = proposalSheet
    /\ \E i \in 1..Len(proposalSheet) :
          /\ proposalSheet[i].status = STATUS_DECLINED
          /\ proposalSheet[i].peak = DEFAULT_STATUS
          /\ proposalSheet[i].lastUpdate = last.currentDate
          /\ Len(proposalSheet[i].notes) = 1

----------------------------------------------------------------------------
(* A stale check that overlaps a run of the engine: the two triggers take no lock *)

\* the table holds rows last updated at week 1 or 2; the check runs when the
\* rows of week 1 are older than the threshold
InitOverlap ==
    /\ geminiCall = NoCall
    /\ staleCheck = NoSweep
    /\ clock = WEEKS_THRESHOLD + 2
    /\ proposalSheet = <<>>
    /\ installation = ValidInstallation
    /\ sheet \in InitTables
    /\ labels \in {[t \in Threads |-> IF t <= n THEN {TRACKER_GMAIL_LABEL_TO_PROCESS} ELSE {}] : n \in Threads}
    /\ deleted = {}
    /\ runs = 0
    /\ fetchedTotal = 0
    /\ pc = "idle"
    /\ fetched = <<>>
    /\ messagesToSort = <<>>
    /\ idx = 0
    /\ companyIndex = EmptyIndex
    /\ dataToUpdate = <<>>
    /\ newRowsData = <<>>
    /\ threadProcessingOutcomes = NoOutcomes
    /\ last = NoLast

OverlapUnchanged ==
    UNCHANGED <<labels, deleted, runs, fetchedTotal, pc, fetched, messagesToSort, idx,
                companyIndex, dataToUpdate, newRowsData, threadProcessingOutcomes, last,
                installation, geminiCall, clock, proposalSheet>>

\* markStaleApplicationsAsRejected up to its loop: dataRange.getValues()
StaleCheckReads ==
    /\ staleCheck.pc = "idle"
    /\ staleCheck' = [pc |-> "read", sheetValues |-> sheet, currentDate |-> clock]
    /\ UNCHANGED sheet
    /\ OverlapUnchanged

\* its loop and dataRange.setValues(sheetValues): the range is the one that was
\* read, rows appended since then lie below it
StaleCheckWrites ==
    /\ staleCheck.pc = "read"
    /\ LET marked == markStaleApplicationsAsRejected(staleCheck.sheetValues,
                                                     staleCheck.currentDate)
       IN  sheet' = IF marked # staleCheck.sheetValues
                    THEN marked \o SubSeq(sheet, Len(marked) + 1, Len(sheet))
                    ELSE sheet
    /\ staleCheck' = [staleCheck EXCEPT !.pc = "done"]
    /\ OverlapUnchanged

NextOverlap ==
    \/ Next
    \/ StaleCheckReads
    \/ StaleCheckWrites

SpecOverlap == InitOverlap /\ [][NextOverlap]_vars

\* the row as the stale check of the overlap leaves it
SweptRow(row) == markStaleApplicationsAsRejected(<<row>>, staleCheck.currentDate)[1]

\* C30: when a run of the engine and a stale check have both written, every
\* row the run updated holds the values of the run's last update of it, or
\* those values as the stale check marks them, and every row the run appended
\* is in the table, as appended or as the stale check marks it.
C30_NoLostWrite ==
    (pc \in {"labels", "done"} /\ staleCheck.pc = "done") =>
        /\ \A n \in 1..Len(dataToUpdate) :
              (\A m \in (n + 1)..Len(dataToUpdate) : dataToUpdate[m].row # dataToUpdate[n].row)
                 => sheet[dataToUpdate[n].row - 1]
                       \in {dataToUpdate[n].values, SweptRow(dataToUpdate[n].values)}
        /\ \A n \in 1..Len(newRowsData) :
              \E i \in 1..Len(sheet) :
                  sheet[i] \in {newRowsData[n], SweptRow(newRowsData[n])}

====
